---- MODULE Spec2Model ----
(***************************************************************************)
(* unix-named-pipe: create / open_read / open_write (src/src/lib.rs),      *)
(* FileFIFOExt::is_fifo (src/src/ext.rs) and the sample server's try_open  *)
(* (src/examples/varsz_server.rs), over a model of the filesystem, the     *)
(* descriptor table and the kernel's pipe buffers.                         *)
(*                                                                         *)
(* Environment assumptions of the filesystem model: every directory on a   *)
(* modelled path can be searched by the caller, every file the caller      *)
(* opens grants it the access it asks for, and the descriptor table never  *)
(* fills up (MaxHandles is a bound of the model, not EMFILE).              *)
(***************************************************************************)
EXTENDS Integers, Sequences, FiniteSets, Bags, TLC

\* ------------------------------------------------------------- bounds
MaxHandles == 2
MaxPipes == 1
PipeCap == 2
MaxBytes == 3
MaxDepth == 2

\* ---------------------------------------------------------- constants
\* 0o644, the mode create uses when none is given.
DefaultMode == 420
\* 0o660, the mode the sample server creates its pipe with.
ServerMode == 432
\* The absent mode, Option::None.
NoMode == -1

ModeInputs == {NoMode, ServerMode}

\* 0xCA and 0xFE, the first bytes of the round-trip test.
Bytes == {202, 254}

\* What one write call is given: one byte or two.
DataInputs == {<<a>> : a \in Bytes} \cup {<<a, b>> : a \in Bytes, b \in Bytes}

\* The buffer lengths one read call is given.
ReadLens == {1, 2}

\* ------------------------------------------------------ the filesystem
\* Directories of the model and what the caller may do in each:
\*   "ok"      exists, writable
\*   "missing" does not exist (the /notadir of create_pipe_enoent)
\*   "nowrite" exists, the caller may not write to it
\*   "rofs"    exists, on a read-only filesystem
DirState(d) ==
    CASE d = "/tmp" -> "ok"
      [] d = "/notadir" -> "missing"
      [] d = "/etc" -> "nowrite"
      [] d = "/mnt" -> "rofs"

Paths == {"/tmp/pipe", "/tmp/file.txt", "/notadir/pipe", "/etc/pipe", "/etc/passwd",
          "/mnt/pipe"}

\* A path string with an interior NUL byte: no C string, so no OS path.
NulPath == "/tmp/pi\\0pe"

PathInputs == Paths \cup {NulPath}

DirOf(p) ==
    CASE p \in {"/tmp/pipe", "/tmp/file.txt"} -> "/tmp"
      [] p = "/notadir/pipe" -> "/notadir"
      [] p \in {"/etc/pipe", "/etc/passwd"} -> "/etc"
      [] p = "/mnt/pipe" -> "/mnt"

ParentExists(p) == DirState(DirOf(p)) # "missing"

NoEntry == [kind |-> "none", perm |-> 0, pipe |-> 0]
RegularFile == [kind |-> "regular", perm |-> DefaultMode, pipe |-> 0]
FifoEntry(perm, k) == [kind |-> "fifo", perm |-> perm, pipe |-> k]

\* An open File: the type of the file it was opened on, the pipe behind it
\* (0 for a regular file) and the access it was opened for.
Handle(kind, k, access) == [kind |-> kind, pipe |-> k, access |-> access]

VARIABLES
    fs,         \* path -> directory entry
    handles,    \* the bag of open Files the caller holds
    buf,        \* pipe -> bytes in the kernel buffer, oldest first
    written,    \* pipe -> every byte written since the pipe was last set up
    delivered,  \* pipe -> every byte a read returned since then
    created,    \* paths a successful create made and the caller has not removed
    last,       \* the call that just returned, with what it saw before it ran
    srv         \* the sample server's try_open

vars == <<fs, handles, buf, written, delivered, created, last, srv>>

PipeIds == 1..MaxPipes

OpenHandles == BagToSet(handles)

\* The open descriptors that read from, and that write to, pipe k.
Readers(k) == CopiesIn(Handle("fifo", k, "r"), handles)
              + CopiesIn(Handle("fifo", k, "rw"), handles)
Writers(k) == CopiesIn(Handle("fifo", k, "w"), handles)
              + CopiesIn(Handle("fifo", k, "rw"), handles)

PipeInUse(k) ==
    \/ \E p \in Paths : fs[p].pipe = k
    \/ \E h \in OpenHandles : h.pipe = k

FreePipes == {k \in PipeIds : ~PipeInUse(k)}
HandleFree == BagCardinality(handles) < MaxHandles
Lowest(S) == CHOOSE x \in S : \A y \in S : x <= y

\* ---------------------------------------------------------- results
\* flag: the boolean is_fifo returned.
OkBool(b) == [status |-> "Ok", kind |-> "-", code |-> "-", flag |-> b]
OkUnit == OkBool(FALSE)
Err(kind, code) == [status |-> "Err", kind |-> kind, code |-> code, flag |-> FALSE]
\* The call has not returned: the caller waits in the kernel.
Blocked == [status |-> "Blocked", kind |-> "-", code |-> "-", flag |-> FALSE]

\* std's io::Error::from_raw_os_error: the kind of a raw OS error.
DecodeErrorKind(e) ==
    CASE e = "ENOENT" -> "NotFound"
      [] e = "EACCES" -> "PermissionDenied"
      [] e = "EEXIST" -> "AlreadyExists"
      [] e = "EAGAIN" -> "WouldBlock"
      [] e = "EPIPE" -> "BrokenPipe"
      [] OTHER -> "Other"

NoCall == [op |-> "none", path |-> "-", mode |-> NoMode, access |-> "-",
           preKind |-> "none", preReaders |-> 0, res |-> OkUnit]

\* The record of a call: what was at the path, and how many readers its pipe
\* had, when the call was made, and what the call returned.
Call(op, path, mode, res) ==
    [op |-> op, path |-> path, mode |-> mode, access |-> "-",
     preKind |-> IF path \in Paths THEN fs[path].kind ELSE "none",
     preReaders |-> IF path \in Paths /\ fs[path].kind = "fifo"
                    THEN Readers(fs[path].pipe) ELSE 0,
     res |-> res]

\* --------------------------------------------------------------- create
\* CString::new(path)?: a path with an interior NUL byte is refused before
\* any system call, as io::ErrorKind::InvalidInput.
CStringNew(path) ==
    IF path = NulPath THEN Err("InvalidInput", "nul") ELSE OkUnit

\* mode.unwrap_or(0o644)
ModeOrDefault(mode) == IF mode = NoMode THEN DefaultMode ELSE mode

\* mkfifo(3): the error it sets, or "0". Path resolution first, then the
\* lookup of the last component, then the permission to create in the parent.
Mkfifo(path, perm) ==
    LET d == DirState(DirOf(path)) IN
    CASE d = "missing" -> "ENOENT"
      [] d # "missing" /\ fs[path].kind # "none" -> "EEXIST"
      [] d = "nowrite" /\ fs[path].kind = "none" -> "EACCES"
      [] d = "rofs" /\ fs[path].kind = "none" -> "EROFS"
      [] OTHER -> "0"

\* Mutant: the file is made with creat(2), a regular file.
MkfifoEntry_Creat(perm, k) == [kind |-> "regular", perm |-> perm, pipe |-> 0]

\* What a successful mkfifo leaves at the path: a FIFO with the given mode.
MkfifoEntry(perm, k) == FifoEntry(perm, k)

\* Mutant: the EEXIST arm is missing.
MapErrno_NoEexist(e) ==
    CASE e = "EACCES" -> "PermissionDenied"
      [] e = "ENOENT" -> "NotFound"
      [] OTHER -> "Other"

\* Mutant: the ENOENT arm is missing.
MapErrno_NoEnoent(e) ==
    CASE e = "EACCES" -> "PermissionDenied"
      [] e = "EEXIST" -> "AlreadyExists"
      [] OTHER -> "Other"

\* Mutant: the catch-all arm hands the raw OS error on unmapped.
MapErrno_Raw(e) ==
    CASE e = "EACCES" -> "PermissionDenied"
      [] e = "EEXIST" -> "AlreadyExists"
      [] e = "ENOENT" -> "NotFound"
      [] OTHER -> "Uncategorized"

\* match error.0 { EACCES, EEXIST, ENOENT, _ }
MapErrno(e) ==
    CASE e = "EACCES" -> "PermissionDenied"
      [] e = "EEXIST" -> "AlreadyExists"
      [] e = "ENOENT" -> "NotFound"
      [] OTHER -> "Other"

CreateResult(path, mode) ==
    LET c == CStringNew(path) IN
    IF c.status = "Err" THEN c
    ELSE LET e == Mkfifo(path, ModeOrDefault(mode)) IN
         IF e = "0" THEN OkUnit ELSE Err(MapErrno(e), e)

FsAfterCreate(path, mode, res) ==
    IF res.status = "Ok"
    THEN [fs EXCEPT ![path] = MkfifoEntry(ModeOrDefault(mode), Lowest(FreePipes))]
    ELSE fs

create(path, mode) ==
    LET res == CreateResult(path, mode) IN
    /\ res.status = "Ok" => FreePipes # {}
    /\ fs' = FsAfterCreate(path, mode, res)
    /\ created' = IF res.status = "Ok" THEN created \cup {path} ELSE created
    /\ last' = Call("create", path, mode, res)
    /\ UNCHANGED <<handles, buf, written, delivered, srv>>

\* ----------------------------------------------------------------- open
\* Mutant: open_read without custom_flags(O_NONBLOCK).
OpenReadOptions_Blocking ==
    [read |-> TRUE, write |-> FALSE, append |-> FALSE, create |-> FALSE,
     nonblock |-> FALSE]

\* Mutant: open_read also asks for write(true).create(true).
OpenReadOptions_Create ==
    [read |-> TRUE, write |-> TRUE, append |-> FALSE, create |-> TRUE,
     nonblock |-> TRUE]

\* OpenOptions::new().read(true).custom_flags(O_NONBLOCK)
OpenReadOptions ==
    [read |-> TRUE, write |-> FALSE, append |-> FALSE, create |-> FALSE,
     nonblock |-> TRUE]

\* Mutant: open_write without custom_flags(O_NONBLOCK).
OpenWriteOptions_Blocking ==
    [read |-> FALSE, write |-> TRUE, append |-> TRUE, create |-> FALSE,
     nonblock |-> FALSE]

\* OpenOptions::new().write(true).append(true).custom_flags(O_NONBLOCK)
OpenWriteOptions ==
    [read |-> FALSE, write |-> TRUE, append |-> TRUE, create |-> FALSE,
     nonblock |-> TRUE]

Access(o) == IF o.read /\ o.write THEN "rw" ELSE IF o.write THEN "w" ELSE "r"

OpenOk(kind, k, creates) ==
    [status |-> "Ok", errno |-> "0", kind |-> kind, pipe |-> k, creates |-> creates]
OpenErr(e) ==
    [status |-> "Err", errno |-> e, kind |-> "none", pipe |-> 0, creates |-> FALSE]
OpenBlocks ==
    [status |-> "Blocked", errno |-> "0", kind |-> "none", pipe |-> 0, creates |-> FALSE]

\* open(2) on a FIFO: a reader opens at once when O_NONBLOCK is set (or a
\* writer is there); a writer needs a reader, and without one fails with
\* ENXIO under O_NONBLOCK and waits otherwise; O_RDWR always opens.
OpenFifo(k, o) ==
    IF o.read /\ o.write THEN OpenOk("fifo", k, FALSE)
    ELSE IF o.read
         THEN IF o.nonblock \/ Writers(k) > 0
              THEN OpenOk("fifo", k, FALSE) ELSE OpenBlocks
         ELSE IF Readers(k) > 0 THEN OpenOk("fifo", k, FALSE)
              ELSE IF o.nonblock THEN OpenErr("ENXIO") ELSE OpenBlocks

\* OpenOptions::open(path): std refuses a path with a NUL byte, then open(2).
OsOpen(path, o) ==
    IF path = NulPath THEN OpenErr("nul")
    ELSE LET d == DirState(DirOf(path))
             e == fs[path] IN
         CASE d = "missing" -> OpenErr("ENOENT")
           [] d # "missing" /\ e.kind = "none" ->
                IF o.create /\ o.write
                THEN (IF d = "ok" THEN OpenOk("regular", 0, TRUE)
                      ELSE IF d = "nowrite" THEN OpenErr("EACCES")
                      ELSE OpenErr("EROFS"))
                ELSE OpenErr("ENOENT")
           [] d # "missing" /\ e.kind = "regular" ->
                IF o.write /\ d = "rofs" THEN OpenErr("EROFS")
                ELSE OpenOk("regular", 0, FALSE)
           [] d # "missing" /\ e.kind = "fifo" -> OpenFifo(e.pipe, o)

OpenResult(out) ==
    CASE out.status = "Ok" -> OkUnit
      [] out.status = "Blocked" -> Blocked
      [] out.status = "Err" ->
           IF out.errno = "nul" THEN Err("InvalidInput", "nul")
           ELSE Err(DecodeErrorKind(out.errno), out.errno)

\* Mutant: a failed open of a FIFO removes the FIFO.
FsAfterOpen_Cleanup(path, out) ==
    IF out.creates THEN [fs EXCEPT ![path] = RegularFile]
    ELSE IF out.status = "Err" /\ path \in Paths /\ fs[path].kind = "fifo"
         THEN [fs EXCEPT ![path] = NoEntry]
         ELSE fs

\* The filesystem after the open: only an open with create(true), which
\* neither open_read nor open_write asks for, adds an entry.
FsAfterOpen(path, out) ==
    IF out.creates THEN [fs EXCEPT ![path] = RegularFile] ELSE fs

\* The shared body of open_read and open_write.
Open(op, path, o) ==
    LET out == OsOpen(path, o) IN
    /\ out.status = "Ok" => HandleFree
    /\ handles' = IF out.status = "Ok"
                  THEN handles (+) SetToBag({Handle(out.kind, out.pipe, Access(o))})
                  ELSE handles
    /\ fs' = FsAfterOpen(path, out)
    /\ last' = Call(op, path, NoMode, OpenResult(out))
    /\ UNCHANGED <<buf, written, delivered, created, srv>>

open_read(path) == Open("open_read", path, OpenReadOptions)

open_write(path) == Open("open_write", path, OpenWriteOptions)

\* -------------------------------------------------------------- is_fifo
\* File::metadata(): fstat on the descriptor; it fails only on a descriptor
\* that is no longer valid.
Metadata(h) ==
    IF BagIn(h, handles) THEN [status |-> "Ok", kind |-> h.kind]
    ELSE [status |-> "Err", kind |-> "none"]

\* Mutant: the test is file_type().is_file().
IsFifoResult_IsFile(h) ==
    LET md == Metadata(h) IN
    IF md.status = "Err" THEN Err("Other", "EBADF") ELSE OkBool(md.kind = "regular")

\* Ok(metadata.file_type().is_fifo())
IsFifoResult(h) ==
    LET md == Metadata(h) IN
    IF md.status = "Err" THEN Err("Other", "EBADF") ELSE OkBool(md.kind = "fifo")

is_fifo(h) ==
    /\ BagIn(h, handles)
    /\ last' = [Call("is_fifo", "-", NoMode, IsFifoResult(h))
                  EXCEPT !.preKind = h.kind, !.access = h.access]
    /\ UNCHANGED <<fs, handles, buf, written, delivered, created, srv>>

\* --------------------------------------------------- reads and writes
\* write(2) on a pipe under O_NONBLOCK, for at most PIPE_BUF bytes: all of
\* them or none. EPIPE without a reader, EAGAIN without room.
PipeWrite(k, data) ==
    IF Readers(k) = 0 THEN "EPIPE"
    ELSE IF Len(buf[k]) + Len(data) > PipeCap THEN "EAGAIN"
    ELSE "0"

\* File::write: no buffering of its own, the bytes go straight to the pipe.
write(h, data) ==
    /\ BagIn(h, handles) /\ h.kind = "fifo" /\ h.access \in {"w", "rw"}
    /\ Len(written[h.pipe]) + Len(data) <= MaxBytes
    /\ LET e == PipeWrite(h.pipe, data) IN
       /\ buf' = IF e = "0" THEN [buf EXCEPT ![h.pipe] = @ \o data] ELSE buf
       /\ written' = IF e = "0" THEN [written EXCEPT ![h.pipe] = @ \o data]
                     ELSE written
       /\ last' = [Call("write", "-", NoMode,
                        IF e = "0" THEN OkUnit ELSE Err(DecodeErrorKind(e), e))
                     EXCEPT !.preKind = h.kind, !.access = h.access]
    /\ UNCHANGED <<fs, handles, delivered, created, srv>>

\* File::flush: nothing to do, a File holds no buffer.
flush(h) ==
    /\ BagIn(h, handles) /\ h.kind = "fifo" /\ h.access \in {"w", "rw"}
    /\ last' = [Call("flush", "-", NoMode, OkUnit)
                  EXCEPT !.preKind = h.kind, !.access = h.access]
    /\ UNCHANGED <<fs, handles, buf, written, delivered, created, srv>>

\* read(2) on a pipe under O_NONBLOCK: the oldest bytes, at most n of them;
\* on an empty pipe EAGAIN while a writer is there, end of file otherwise.
PipeRead(k, n) ==
    IF buf[k] = <<>>
    THEN [errno |-> IF Writers(k) > 0 THEN "EAGAIN" ELSE "0", data |-> <<>>]
    ELSE [errno |-> "0",
          data |-> SubSeq(buf[k], 1, IF n < Len(buf[k]) THEN n ELSE Len(buf[k]))]

\* File::read into a buffer of n bytes.
read(h, n) ==
    /\ BagIn(h, handles) /\ h.kind = "fifo" /\ h.access \in {"r", "rw"}
    /\ LET out == PipeRead(h.pipe, n) IN
       /\ buf' = [buf EXCEPT ![h.pipe] = SubSeq(@, Len(out.data) + 1, Len(@))]
       /\ delivered' = [delivered EXCEPT ![h.pipe] = @ \o out.data]
       /\ last' = [Call("read", "-", NoMode,
                        IF out.errno = "0" THEN OkUnit
                        ELSE Err(DecodeErrorKind(out.errno), out.errno))
                     EXCEPT !.preKind = h.kind, !.access = h.access]
    /\ UNCHANGED <<fs, handles, written, created, srv>>

\* ------------------------------------------------------------ the caller
\* A File goes out of scope. The kernel drops a pipe's buffer with its last
\* descriptor.
DropPipe(f, k, hs) ==
    IF k # 0 /\ \A h \in BagToSet(hs) : h.pipe # k
    THEN [f EXCEPT ![k] = <<>>] ELSE f

close(h) ==
    /\ BagIn(h, handles)
    /\ LET hs == handles (-) SetToBag({h})
           k == h.pipe IN
       /\ handles' = hs
       /\ buf' = DropPipe(buf, k, hs)
       /\ written' = DropPipe(written, k, hs)
       /\ delivered' = DropPipe(delivered, k, hs)
    /\ last' = Call("close", "-", NoMode, OkUnit)
    /\ UNCHANGED <<fs, created, srv>>

\* fs::remove_file(path), as the tests and the server call it.
remove_file(path) ==
    /\ fs[path].kind # "none"
    /\ DirState(DirOf(path)) = "ok"
    /\ fs' = [fs EXCEPT ![path] = NoEntry]
    /\ created' = created \ {path}
    /\ last' = Call("remove_file", path, NoMode, OkUnit)
    /\ UNCHANGED <<handles, buf, written, delivered, srv>>

\* fs::write(path, ..) on a fresh path, as the tests call it: a regular file.
fs_write(path) ==
    /\ fs[path].kind = "none"
    /\ DirState(DirOf(path)) = "ok"
    /\ fs' = [fs EXCEPT ![path] = RegularFile]
    /\ last' = Call("fs_write", path, NoMode, OkUnit)
    /\ UNCHANGED <<handles, buf, written, delivered, created, srv>>

\* ----------------------------------------------------- the sample server
\* The sample server before main calls try_open: where try_open stands, the
\* path it was given, how deep it has recursed, what it returned.
IdleServer == [pc |-> "idle", path |-> "-", depth |-> 0, res |-> OkUnit]

\* main: try_open(&pipe_path) with the path of the command line.
main_try_open(path) ==
    /\ srv.pc = "idle"
    /\ srv' = [pc |-> "open_read", path |-> path, depth |-> 0, res |-> OkUnit]
    /\ last' = Call("try_open", path, NoMode, OkUnit)
    /\ UNCHANGED <<fs, handles, buf, written, delivered, created>>

\* try_open, from its entry to its first return or to the call of create:
\* open_read; NotFound goes on to create, any other error is returned; an
\* opened file that is no FIFO is dropped and reported as an Other error.
try_open_read ==
    /\ srv.pc = "open_read"
    /\ LET out == OsOpen(srv.path, OpenReadOptions)
           res == OpenResult(out)
           file == Handle(out.kind, out.pipe, Access(OpenReadOptions))
           fifo == out.status = "Ok" /\ out.kind = "fifo"
       IN
       /\ fifo => HandleFree
       /\ handles' = IF fifo THEN handles (+) SetToBag({file}) ELSE handles
       /\ fs' = FsAfterOpen(srv.path, out)
       /\ srv' = CASE res.status = "Err" /\ res.kind = "NotFound" ->
                        [srv EXCEPT !.pc = "create"]
                   [] res.status = "Err" /\ res.kind # "NotFound" ->
                        [srv EXCEPT !.pc = "done", !.res = res]
                   [] res.status = "Ok" /\ ~fifo ->
                        [srv EXCEPT !.pc = "done", !.res = Err("Other", "not a fifo")]
                   [] res.status = "Ok" /\ fifo ->
                        [srv EXCEPT !.pc = "done", !.res = OkUnit]
                   [] res.status = "Blocked" -> [srv EXCEPT !.pc = "blocked"]
       /\ last' = Call("open_read", srv.path, NoMode, res)
    /\ UNCHANGED <<buf, written, delivered, created>>

\* Mutant: the result of create is ignored (no `?`).
AfterCreate_Ignore(res) == "recurse"

\* unix_named_pipe::create(&pipe_path, Some(0o660))?; return try_open(pipe_path);
AfterCreate(res) == IF res.status = "Err" THEN "return" ELSE "recurse"

\* try_open's NotFound arm: create the pipe, then call try_open again.
try_open_create ==
    /\ srv.pc = "create"
    /\ LET res == CreateResult(srv.path, ServerMode)
           then == AfterCreate(res)
       IN
       /\ res.status = "Ok" => FreePipes # {}
       /\ then = "recurse" => srv.depth < MaxDepth
       /\ fs' = FsAfterCreate(srv.path, ServerMode, res)
       /\ created' = IF res.status = "Ok" THEN created \cup {srv.path} ELSE created
       /\ srv' = IF then = "return"
                 THEN [srv EXCEPT !.pc = "done", !.res = res]
                 ELSE [srv EXCEPT !.pc = "open_read", !.depth = @ + 1]
       /\ last' = Call("create", srv.path, ServerMode, res)
    /\ UNCHANGED <<handles, buf, written, delivered>>

\* main after try_open returned: on Ok the read loop runs until the interrupt,
\* then the pipe is removed; on Err the expect panics. Either way the process
\* ends and its descriptors are closed.
main_exit ==
    /\ srv.pc = "done"
    /\ handles' = EmptyBag
    /\ fs' = IF srv.res.status = "Ok" /\ fs[srv.path].kind # "none"
             THEN [fs EXCEPT ![srv.path] = NoEntry] ELSE fs
    /\ created' = IF srv.res.status = "Ok" THEN created \ {srv.path} ELSE created
    /\ srv' = IdleServer
    /\ last' = Call("exit", srv.path, NoMode, OkUnit)
    /\ UNCHANGED <<buf, written, delivered>>

\* ------------------------------------------------------- specification

\* The filesystem the caller starts with: one regular file that is not its
\* own, in a directory it cannot write to, and nothing at the other paths.
InitFs == [p \in Paths |-> IF p = "/etc/passwd" THEN RegularFile ELSE NoEntry]

Init ==
    /\ fs = InitFs
    /\ handles = EmptyBag
    /\ buf = [k \in PipeIds |-> <<>>]
    /\ written = [k \in PipeIds |-> <<>>]
    /\ delivered = [k \in PipeIds |-> <<>>]
    /\ created = {}
    /\ last = NoCall
    /\ srv = IdleServer

Next ==
    \/ \E p \in PathInputs, m \in ModeInputs : create(p, m)
    \/ \E p \in PathInputs : open_read(p)
    \/ \E p \in PathInputs : open_write(p)
    \/ \E h \in OpenHandles : is_fifo(h)
    \/ \E h \in OpenHandles : close(h)
    \/ \E p \in Paths : remove_file(p)
    \/ \E p \in Paths : fs_write(p)

Spec == Init /\ [][Next]_vars

\* The round trip of tests::open_pipe_read: one pipe, created without a mode,
\* opened, written to and read from in every order.
PipePath == "/tmp/pipe"

NextPipe ==
    \/ create(PipePath, NoMode)
    \/ open_read(PipePath)
    \/ open_write(PipePath)
    \/ \E h \in OpenHandles, d \in DataInputs : write(h, d)
    \/ \E h \in OpenHandles : flush(h)
    \/ \E h \in OpenHandles, n \in ReadLens : read(h, n)
    \/ \E h \in OpenHandles : close(h)

SpecPipe == Init /\ [][NextPipe]_vars

\* The sample server beside other programs that remove the pipe or put a
\* regular file in its place.
NextServer ==
    \/ \E p \in Paths : main_try_open(p)
    \/ try_open_read
    \/ try_open_create
    \/ main_exit
    \/ \E p \in Paths : remove_file(p)
    \/ \E p \in Paths : fs_write(p)

SpecServer == Init /\ [][NextServer]_vars

\* ---------------------------------------------------------------- claims
LibraryOps == {"create", "open_read", "open_write", "is_fifo"}
FourKinds == {"PermissionDenied", "AlreadyExists", "NotFound", "Other"}

\* C1: create on a path that already names an entry, FIFO or regular file,
\* with any mode, returns an AlreadyExists error and never success.
C1_CreateExistingFails ==
    (last.op = "create" /\ last.preKind # "none")
        => (last.res.status = "Err" /\ last.res.kind = "AlreadyExists")

C1_Witness ==
    /\ last.op = "create" /\ last.preKind = "fifo" /\ last.mode = ServerMode
    /\ last.res.kind = "AlreadyExists"

\* C2: a library call never deletes or replaces an entry, a failing create,
\* open_read or open_write leaves the filesystem as it was, and every FIFO a
\* successful create made is still a FIFO until the caller removes it.
C2_FifoPersists ==
    [][/\ last'.op \in LibraryOps =>
            /\ \A p \in Paths : fs[p].kind # "none" => fs'[p] = fs[p]
            /\ last'.res.status # "Ok" => fs' = fs
       /\ \A p \in created' : fs'[p].kind = "fifo"]_vars

C2_Witness ==
    /\ "/tmp/pipe" \in created
    /\ last.op = "open_write" /\ last.path = "/tmp/pipe" /\ last.res.status = "Err"
    /\ fs["/tmp/pipe"].kind = "fifo"

\* C3: on a FIFO, open_read succeeds at once and open_write succeeds once a
\* reader is there; from then on the bytes the reads returned, followed by
\* the bytes still in the pipe, are the bytes written, in the order written:
\* nothing lost, duplicated or reordered, also after the writer has closed.
C3_RoundTrip ==
    [][/\ (/\ last'.op = "open_read" /\ last'.path \in Paths
           /\ fs[last'.path].kind = "fifo")
              => last'.res.status = "Ok"
       /\ (/\ last'.op = "open_write" /\ last'.path \in Paths
           /\ fs[last'.path].kind = "fifo" /\ Readers(fs[last'.path].pipe) > 0)
              => last'.res.status = "Ok"
       /\ \A k \in PipeIds : delivered'[k] \o buf'[k] = written'[k]]_vars

\* The writer has closed, and the reader then read every byte written.
C3_Witness ==
    /\ last.op = "read" /\ last.res.status = "Ok"
    /\ fs[PipePath].kind = "fifo"
    /\ Writers(fs[PipePath].pipe) = 0 /\ Readers(fs[PipePath].pipe) = 1
    /\ delivered[fs[PipePath].pipe] = <<202, 254, 202>>
    /\ written[fs[PipePath].pipe] = <<202, 254, 202>>

\* C4: open_write on a FIFO that no descriptor reads from returns an error:
\* it returns no handle and does not wait for a reader.
C4_OpenWriteNoReader ==
    [][(/\ last'.op = "open_write" /\ last'.path \in Paths
        /\ fs[last'.path].kind = "fifo" /\ Readers(fs[last'.path].pipe) = 0)
            => (last'.res.status = "Err" /\ handles' = handles)]_vars

C4_Witness ==
    /\ last.op = "open_write" /\ last.preKind = "fifo" /\ last.preReaders = 0
    /\ last.res.status = "Err" /\ last.res.code = "ENXIO"

\* C5 as claimed: every failing create returns one of the four kinds
\* PermissionDenied, AlreadyExists, NotFound, Other.
C5_Original ==
    (last.op = "create" /\ last.res.status = "Err") => last.res.kind \in FourKinds

\* C5 as amended: a failing create whose path is a C string returns one of
\* the four kinds; a path with an interior NUL byte fails with InvalidInput.
C5_CreateErrorKinds ==
    (last.op = "create" /\ last.res.status = "Err")
        => IF last.path = NulPath THEN last.res.kind = "InvalidInput"
           ELSE last.res.kind \in FourKinds

C5_Witness ==
    /\ last.op = "create" /\ last.res.status = "Err"
    /\ last.res.kind = "Other" /\ last.res.code = "EROFS"

C7_RegularIsNotFifo ==
    (last.op = "is_fifo" /\ last.preKind = "regular")
        => (last.res.status = "Ok" /\ ~last.res.flag)

C7_Witness ==
    /\ last.op = "is_fifo" /\ last.preKind = "regular" /\ last.access = "r"
    /\ last.res = OkBool(FALSE)

\* C8: create on a path whose directory does not exist returns NotFound,
\* whatever the mode, and creates nothing.
C8_CreateMissingDir ==
    [][(last'.op = "create" /\ last'.path \in Paths /\ ~ParentExists(last'.path))
            => (/\ last'.res.status = "Err" /\ last'.res.kind = "NotFound"
                /\ fs' = fs)]_vars

C8_Witness ==
    /\ last.op = "create" /\ last.path = "/notadir/pipe" /\ last.mode = ServerMode
    /\ last.res.kind = "NotFound" /\ fs["/notadir/pipe"] = NoEntry

\* C9: open_read on a path where no file exists returns NotFound, returns
\* no handle and creates no entry.
C9_OpenReadMissing ==
    [][(last'.op = "open_read" /\ last'.path \in Paths
        /\ fs[last'.path].kind = "none")
            => (/\ last'.res.status = "Err" /\ last'.res.kind = "NotFound"
                /\ fs' = fs /\ handles' = handles)]_vars

C9_Witness ==
    /\ last.op = "open_read" /\ last.path = "/tmp/pipe" /\ last.preKind = "none"
    /\ last.res.kind = "NotFound" /\ fs["/tmp/pipe"] = NoEntry

====
